---------------------------- MODULE Spec2Model ----------------------------
(***************************************************************************)
(* Role-based Creative Chatbot (src/app.py): the strategy selector, the    *)
(* online strategy, the offline strategy and the stylistic mutations.      *)
(*                                                                         *)
(* A Python str is a sequence of one-character strings.  Code points       *)
(* outside ASCII are written by name: "U+2019" is the right single         *)
(* quotation mark, "U+26A0" "U+FE0F" is the warning sign.                  *)
(*                                                                         *)
(* creativity is the slider position counted in steps of 0.05 (0 .. 20).   *)
(* A value r of random.random(), r in [0,1), is modelled by floor(20 r),   *)
(* a number in 0 .. 19: for a slider position c, r < c * 0.05 exactly      *)
(* when floor(20 r) < c.                                                   *)
(***************************************************************************)
EXTENDS Integers, Sequences, FiniteSets, TLC

(***************************************************************************)
(* Bounds of the model.                                                    *)
(***************************************************************************)
\* the longest list of choices a completion response carries
MaxChoices == 2

\* slider steps: creativity runs over 0.0 .. 1.0 in steps of 0.05
CreativitySteps == 20

(***************************************************************************)
(* str operations.                                                         *)
(***************************************************************************)
UpperCase == <<"A","B","C","D","E","F","G","H","I","J","K","L","M",
               "N","O","P","Q","R","S","T","U","V","W","X","Y","Z">>

LowerCase == <<"a","b","c","d","e","f","g","h","i","j","k","l","m",
               "n","o","p","q","r","s","t","u","v","w","x","y","z">>

\* characters str.strip() removes
Whitespace == {" ", "\t", "\n", "\r", "\f"}

LowerChar(c) ==
    IF \E i \in 1..Len(UpperCase) : UpperCase[i] = c
    THEN LowerCase[CHOOSE i \in 1..Len(UpperCase) : UpperCase[i] = c]
    ELSE c

\* str.lower()
Lower(s) == [i \in 1..Len(s) |-> LowerChar(s[i])]

\* str.strip(): drop the leading and the trailing whitespace
Strip(s) ==
    LET keep == {i \in 1..Len(s) : s[i] \notin Whitespace}
    IN  IF keep = {} THEN << >>
        ELSE LET first == CHOOSE i \in keep : \A j \in keep : i <= j
                 last  == CHOOSE i \in keep : \A j \in keep : j <= i
             IN  SubSeq(s, first, last)

\* s[i:] starts with sub
MatchAt(s, sub, i) ==
    /\ i + Len(sub) - 1 <= Len(s)
    /\ \A j \in 1..Len(sub) : s[i + j - 1] = sub[j]

\* the positions from i on at which sub occurs in s
Matches(s, sub, i) == {j \in i..(Len(s) - Len(sub) + 1) : MatchAt(s, sub, j)}

Least(S) == CHOOSE x \in S : \A y \in S : x <= y

RECURSIVE ReplaceFrom(_, _, _, _)
\* str.replace(old, new) from position i on: non-overlapping, left to right
ReplaceFrom(s, old, new, i) ==
    LET M == Matches(s, old, i)
    IN  IF M = {} THEN SubSeq(s, i, Len(s))
        ELSE SubSeq(s, i, Least(M) - 1) \o new
                 \o ReplaceFrom(s, old, new, Least(M) + Len(old))

Replace(s, old, new) == ReplaceFrom(s, old, new, 1)

RECURSIVE Join(_, _)
\* sep.join(list)
Join(sep, list) ==
    IF list = << >> THEN << >>
    ELSE IF Len(list) = 1 THEN list[1]
    ELSE list[1] \o sep \o Join(sep, Tail(list))

(***************************************************************************)
(* The widgets' options (lines 29-58) and the texts of the program.        *)
(***************************************************************************)
Storyteller == <<"S","t","o","r","y","t","e","l","l","e","r">>

SciFiAuthor == <<"S","c","i","-","F","i"," ","A","u","t","h","o","r">>

\* the role options the model draws from (two of the eight)
Roles == {Storyteller, SciFiAuthor}

Inspirational == <<"I","n","s","p","i","r","a","t","i","o","n","a","l">>

Playful == <<"P","l","a","y","f","u","l">>

\* the tone options the model draws from (two of the five)
Tones == {Inspirational, Playful}

Short == <<"S","h","o","r","t">>

Medium == <<"M","e","d","i","u","m">>

Long == <<"L","o","n","g">>

Lengths == {Short, Medium, Long}

\* the writing devices, in the order stylize_text tries them
DeviceOrder == <<"Metaphor", "Alliteration", "Rule of Three",
                 "Rhetorical Question", "Sensory Detail">>

Devices == {DeviceOrder[i] : i \in 1..Len(DeviceOrder)}

\* slider positions the model draws from: 0.0, the default 0.7, 1.0
Creativities == {0, 14, CreativitySteps}

\* values of random.random() the model draws from: the least and the greatest
Draws == {0, CreativitySteps - 1}

\* prompts the user types: empty, whitespace only, text inside whitespace
Prompts == {<< >>, <<" ","\n">>, <<" ","M","a","r","s"," ">>}

\* " It(U+2019)s like painting with light and shadow."
MetaphorSuffix == <<" ","I","t","U+2019","s"," ","l","i","k","e"," ","p","a","i","n","t",
                    "i","n","g"," ","w","i","t","h"," ","l","i","g","h","t"," ","a",
                    "n","d"," ","s","h","a","d","o","w",".">>

RuleOfThreeSuffix == <<" ","B","a","l","a","n","c","e",","," ","r","h","y","t","h","m",
                       ","," ","a","n","d"," ","r","e","s","o","n","a","n","c","e",".">>

RhetoricalQuestionSuffix == <<" ","W","h","a","t"," ","c","o","u","l","d"," ","b","e"," ","m",
                              "o","r","e"," ","i","n","s","p","i","r","i","n","g","?">>

SensoryDetailSuffix == <<" ","Y","o","u"," ","c","a","n"," ","a","l","m","o","s","t"," ",
                         "f","e","e","l"," ","t","h","e"," ","w","a","r","m","t","h"," ",
                         "i","n"," ","e","v","e","r","y"," ","w","o","r","d",".">>

\* a pool word in place of "strong"
AlliterationOld_Strength == <<"s","t","r","e","n","g","t","h">>

AlliterationOld == <<"s","t","r","o","n","g">>

AlliterationNew == <<"s","w","i","f","t"," ","a","n","d"," ","s","t","e","a","d","y">>

\* the text each appending device appends
Suffix(d) ==
    CASE d = "Metaphor"            -> MetaphorSuffix
      [] d = "Rule of Three"       -> RuleOfThreeSuffix
      [] d = "Rhetorical Question" -> RhetoricalQuestionSuffix
      [] d = "Sensory Detail"      -> SensoryDetailSuffix

parts == <<
    <<"O","n","c","e"," ","u","p","o","n"," ","a"," ","t","i","m","e",
      ","," ","t","h","e","r","e"," ","w","a","s"," ","a"," ","s","p",
      "a","r","k"," ","o","f"," ","h","o","p","e"," ","t","h","a","t",
      " ","r","e","f","u","s","e","d"," ","t","o"," ","f","a","d","e",
      ".">>,
    <<"I","n"," ","t","h","e"," ","q","u","i","e","t"," ","c","o","r",
      "n","e","r","s"," ","o","f"," ","t","h","e"," ","c","i","t","y",
      ","," ","w","h","i","s","p","e","r","s"," ","o","f"," ","c","h",
      "a","n","g","e"," ","b","e","g","a","n"," ","t","o"," ","r","i",
      "s","e",".">>,
    <<"T","h","e"," ","j","o","u","r","n","e","y"," ","w","a","s"," ",
      "l","o","n","g",","," ","b","u","t"," ","e","v","e","r","y"," ",
      "c","h","a","l","l","e","n","g","e"," ","r","e","v","e","a","l",
      "e","d"," ","n","e","w"," ","s","t","r","e","n","g","t","h",".">>,
    <<"B","y"," ","t","h","e"," ","e","n","d",","," ","w","h","a","t",
      " ","s","e","e","m","e","d"," ","i","m","p","o","s","s","i","b",
      "l","e"," ","b","e","c","a","m","e"," ","a"," ","s","t","o","r",
      "y"," ","w","o","r","t","h"," ","r","e","m","e","m","b","e","r",
      "i","n","g",".">> >>

\* k = {"Short": 1, "Medium": 2, "Long": 4}[length]
SampleSize(len) ==
    CASE len = Short  -> 1
      [] len = Medium -> 2
      [] len = Long   -> 4

EmptyPromptOnline == <<"P","l","e","a","s","e"," ","e","n","t","e","r"," ","a"," ","p",
                       "r","o","m","p","t",".">>

EmptyPromptOffline == <<"P","l","e","a","s","e"," ","e","n","t","e","r"," ","a"," ","p",
                        "r","o","m","p","t"," ","t","o"," ","s","t","a","r","t",".">>

\* "(U+26A0)(U+FE0F) API Error: "
ApiErrorPrefix == <<"U+26A0","U+FE0F"," ","A","P","I"," ","E","r","r","o","r",":"," ">>

Model == <<"g","p","t","-","4","o","-","m","i","n","i">>


\* str(e) of the IndexError that response.choices[0] raises on an empty list
IndexErrorText == <<"l","i","s","t"," ","i","n","d","e","x"," ","o","u","t"," ","o",
                    "f"," ","r","a","n","g","e">>

\* str(e) of the AttributeError that None.strip() raises
AttributeErrorText == <<"'","N","o","n","e","T","y","p","e","'"," ","o","b","j","e","c",
                        "t"," ","h","a","s"," ","n","o"," ","a","t","t","r","i","b","u",
                        "t","e"," ","'","s","t","r","i","p","'">>

(***************************************************************************)
(* The environment of the process: the OPENAI_API_KEY environment          *)
(* variable, the OPENAI_API_KEY entry of the secrets, and whether          *)
(* "from openai import OpenAI" succeeded.                                  *)
(***************************************************************************)
Unset == [set |-> FALSE, value |-> << >>]

Value(v) == [set |-> TRUE, value |-> v]

SomeKey == <<"s","k">>

\* the environments the model starts in: <<environment variable, secrets
\* entry, openai imported>>
Environments ==
    { <<Unset, Unset, TRUE>>,
      <<Unset, Value(SomeKey), TRUE>>,
      <<Value(<< >>), Value(SomeKey), TRUE>>,
      <<Value(SomeKey), Unset, TRUE>>,
      <<Value(SomeKey), Unset, FALSE>> }

\* os.getenv(name, default), dict.get(name, default)
Get(setting, default) == IF setting.set THEN setting.value ELSE default

NoClient == [none |-> TRUE, api_key |-> << >>]

\* OpenAI(api_key=key)
NewClient(key) == [none |-> FALSE, api_key |-> key]

\* truth value of a str: non-empty
TruthyStr(s) == s # << >>

\* truth value of client: None is false, a client object is true
TruthyClient(c) == ~c.none

\* lines 66-74: the key and the client the script sets up
ResolveKey(env, secret) == Get(env, Get(secret, << >>))

\* the client made from the key alone
MakeClient_KeyOnly(key, imported) ==
    IF TruthyStr(key) THEN NewClient(key) ELSE NoClient

MakeClient(key, imported) ==
    IF TruthyStr(key) /\ imported THEN NewClient(key) ELSE NoClient

(***************************************************************************)
(* The completion service: what one call of                                *)
(* client.chat.completions.create does.                                    *)
(***************************************************************************)
NoText == [hasText |-> FALSE, text |-> << >>]

Text(t) == [hasText |-> TRUE, text |-> t]

\* message.content of a choice: None or a str
Contents == {NoText, Text(<< >>), Text(<<" ","A"," ","t","a","l","e"," ","u","n","f","o","l","d","s",".",
                                        "\n">>)}

ErrorMessages == {<< >>, <<"r","a","t","e"," ","l","i","m","i","t","e","d">>}

RECURSIVE SeqsUpTo(_, _)
SeqsUpTo(S, n) ==
    IF n = 0 THEN {<< >>}
    ELSE LET shorter == SeqsUpTo(S, n - 1)
         IN  shorter \cup {Append(q, x) : q \in shorter, x \in S}

NoOutcome == [kind |-> "none", msg |-> << >>, choices |-> << >>]

Raises(m) == [kind |-> "raise", msg |-> m, choices |-> << >>]

Returns(cs) == [kind |-> "return", msg |-> << >>, choices |-> cs]

\* the outcomes of one call: raise an Exception e with str(e) = m, or return
\* a response with a list of choices
Outcomes ==
    {Raises(m) : m \in ErrorMessages}
        \cup {Returns(cs) : cs \in SeqsUpTo(Contents, MaxChoices)}

(***************************************************************************)
(* stylize_text, lines 79-91.  style and creativity are the module's       *)
(* globals; draws[d] is the value random.random() returns in the trial of  *)
(* device d (the call is made only when d is in style).                    *)
(***************************************************************************)
\* random.random() <= creativity
Trial_Leq(d, sty, cre, draws) == d \in sty /\ draws[d] <= cre

\* creativity < random.random()
Trial_Reversed(d, sty, cre, draws) == d \in sty /\ cre < draws[d]

Trial(d, sty, cre, draws) == d \in sty /\ draws[d] < cre

\* the mutation of device d
Mutate(d, text) ==
    IF d = "Alliteration" THEN Replace(text, AlliterationOld, AlliterationNew)
    ELSE text \o Suffix(d)

\* one "if" of stylize_text; s.text is the text, s.log the mutations made so far
StylizeStep(d, s, sty, cre, draws) ==
    IF Trial(d, sty, cre, draws)
    THEN [text |-> Mutate(d, s.text), log |-> Append(s.log, d)]
    ELSE s

\* Sensory Detail tried before Rhetorical Question
stylize_text_Reordered(text, sty, cre, draws) ==
    LET s0 == [text |-> text, log |-> << >>]
        s1 == StylizeStep("Metaphor", s0, sty, cre, draws)
        s2 == StylizeStep("Alliteration", s1, sty, cre, draws)
        s3 == StylizeStep("Rule of Three", s2, sty, cre, draws)
        s4 == StylizeStep("Sensory Detail", s3, sty, cre, draws)
        s5 == StylizeStep("Rhetorical Question", s4, sty, cre, draws)
    IN  s5

stylize_text(text, sty, cre, draws) ==
    LET s0 == [text |-> text, log |-> << >>]
        s1 == StylizeStep("Metaphor", s0, sty, cre, draws)
        s2 == StylizeStep("Alliteration", s1, sty, cre, draws)
        s3 == StylizeStep("Rule of Three", s2, sty, cre, draws)
        s4 == StylizeStep("Rhetorical Question", s3, sty, cre, draws)
        s5 == StylizeStep("Sensory Detail", s4, sty, cre, draws)
    IN  s5

(***************************************************************************)
(* generate_story_with_api, lines 94-114.                                  *)
(***************************************************************************)
\* the tone as selected, not lowercased
BuildPrompt_ToneAsIs(r, t, text, len) ==
    <<"Y","o","u"," ","a","r","e"," ","a"," ">> \o r \o <<" ","w","r","i","t","i","n","g"," ","i","n"," ","a"," ">> \o t \o <<" ","t","o","n","e","."," ">>
    \o <<"W","r","i","t","e"," ","a"," ","c","o","m","p","l","e","t","e",
         " ">> \o Lower(len) \o <<" ","s","t","o","r","y"," ","b","a","s","e","d"," ","o","n"," ",
                                                "t","h","e"," ","p","r","o","m","p","t"," ","b","e","l","o","w",
                                                ".","\n","\n">>
    \o <<"P","r","o","m","p","t",":"," ">> \o text \o <<"\n","\n">>
    \o <<"U","s","e"," ","v","i","v","i","d"," ","l","a","n","g","u","a",
         "g","e",","," ","i","m","a","g","i","n","a","t","i","o","n",",",
         " ","a","n","d"," ","e","m","o","t","i","o","n","a","l"," ","f",
         "l","o","w",".">>

\* lines 99-104
BuildPrompt(r, t, text, len) ==
    <<"Y","o","u"," ","a","r","e"," ","a"," ">> \o r \o <<" ","w","r","i","t","i","n","g"," ","i","n"," ","a"," ">> \o Lower(t) \o <<" ","t","o","n","e","."," ">>
    \o <<"W","r","i","t","e"," ","a"," ","c","o","m","p","l","e","t","e",
         " ">> \o Lower(len) \o <<" ","s","t","o","r","y"," ","b","a","s","e","d"," ","o","n"," ",
                                                "t","h","e"," ","p","r","o","m","p","t"," ","b","e","l","o","w",
                                                ".","\n","\n">>
    \o <<"P","r","o","m","p","t",":"," ">> \o text \o <<"\n","\n">>
    \o <<"U","s","e"," ","v","i","v","i","d"," ","l","a","n","g","u","a",
         "g","e",","," ","i","m","a","g","i","n","a","t","i","o","n",",",
         " ","a","n","d"," ","e","m","o","t","i","o","n","a","l"," ","f",
         "l","o","w",".">>

\* lines 107-111: the request the service receives
Request(content, cre) ==
    [model |-> Model,
     messages |-> <<[role |-> "user", content |-> content]>>,
     temperature |-> cre]

Raised(m) == [raised |-> TRUE, msg |-> m, value |-> << >>]

Returned(v) == [raised |-> FALSE, msg |-> << >>, value |-> v]

\* lines 107-112, the body of the try: the call, then choices[0].message.content.strip()
TryBody(outcome) ==
    IF outcome.kind = "raise" THEN Raised(outcome.msg)
    ELSE IF outcome.choices = << >> THEN Raised(IndexErrorText)
    ELSE IF ~outcome.choices[1].hasText THEN Raised(AttributeErrorText)
    ELSE Returned(Strip(outcome.choices[1].text))

\* the exception's repr in place of its str
ExceptResult_Repr(m) == ApiErrorPrefix \o <<"E","x","c","e","p","t","i","o","n","(","'">> \o m \o <<"'",")">>

\* lines 113-114: except Exception as e
ExceptResult(m) == ApiErrorPrefix \o m

\* "if not text:" in place of "if not text.strip():"
generate_story_with_api_NoStrip(r, t, text, cre, len, outcome) ==
    IF text = << >>
    THEN [result |-> EmptyPromptOnline, calls |-> << >>, propagated |-> FALSE]
    ELSE LET try == TryBody(outcome)
         IN  [result |-> IF try.raised THEN ExceptResult(try.msg) ELSE try.value,
              calls |-> <<Request(BuildPrompt(r, t, text, len), cre)>>,
              propagated |-> FALSE]

\* result: the returned str; calls: the requests the service received;
\* propagated: an exception left the function
generate_story_with_api(r, t, text, cre, len, outcome) ==
    IF Strip(text) = << >>
    THEN [result |-> EmptyPromptOnline, calls |-> << >>, propagated |-> FALSE]
    ELSE LET try == TryBody(outcome)
         IN  [result |-> IF try.raised THEN ExceptResult(try.msg) ELSE try.value,
              calls |-> <<Request(BuildPrompt(r, t, text, len), cre)>>,
              propagated |-> FALSE]

(***************************************************************************)
(* generate_story_offline, lines 117-132.                                  *)
(***************************************************************************)
\* random.choices(parts, k=k): positions may repeat
Samples_WithReplacement(k) == [1..k -> 1..Len(parts)]

\* random.sample(parts, k): k distinct positions of parts, in any order
Samples(k) ==
    {q \in [1..k -> 1..Len(parts)] : \A i, j \in 1..k : i # j => q[i] # q[j]}

PickParts(q) == [i \in 1..Len(q) |-> parts[q[i]]]

\* line 122
Intro(r, text) ==
    <<"F","r","o","m"," ","a"," ">> \o Lower(r) \o <<"'","s"," ","p","e","r","s","p","e","c","t","i","v","e",","," ",
                                 "h","e","r","e","'","s"," ","a"," ","s","t","o","r","y"," ","a",
                                 "b","o","u","t"," ">>
    \o Lower(text) \o <<":">>

\* line 132
Closing(t) == <<"(","W","r","i","t","t","e","n"," ","i","n"," ","a"," ">> \o Lower(t) \o <<" ","t","o","n","e",".",")">>

NotRun == [result |-> << >>, sampled |-> << >>, styled |-> << >>, log |-> << >>]

\* result: the returned str; sampled, styled, log: the sentences drawn, the
\* text stylize_text returned and the mutations it made
generate_story_offline(r, t, text, len, sty, cre, q, draws) ==
    IF Strip(text) = << >>
    THEN [NotRun EXCEPT !.result = EmptyPromptOffline]
    ELSE LET sampled == PickParts(q)
             body    == Join(<<"\n","\n">>, sampled)
             styled  == stylize_text(body, sty, cre, draws)
         IN  [result |-> Intro(r, text) \o <<"\n","\n">> \o styled.text \o <<"\n","\n">>
                           \o Closing(t),
              sampled |-> sampled,
              styled |-> styled.text,
              log |-> styled.log]

(***************************************************************************)
(* generate_response, lines 135-140.  invoked lists the strategies called. *)
(***************************************************************************)
NoCall == [result |-> << >>, calls |-> << >>, propagated |-> FALSE]

\* a request with an empty prompt routed offline whatever the client is
generate_response_ByPrompt(cl, r, t, text, cre, len, sty, outcome, q, draws) ==
    IF TruthyClient(cl) /\ Strip(text) # << >>
    THEN [invoked |-> <<"online">>,
          online  |-> generate_story_with_api(r, t, text, cre, len, outcome),
          offline |-> NotRun]
    ELSE [invoked |-> <<"offline">>,
          online  |-> NoCall,
          offline |-> generate_story_offline(r, t, text, len, sty, cre, q, draws)]

generate_response(cl, r, t, text, cre, len, sty, outcome, q, draws) ==
    IF TruthyClient(cl)
    THEN [invoked |-> <<"online">>,
          online  |-> generate_story_with_api(r, t, text, cre, len, outcome),
          offline |-> NotRun]
    ELSE [invoked |-> <<"offline">>,
          online  |-> NoCall,
          offline |-> generate_story_offline(r, t, text, len, sty, cre, q, draws)]

(***************************************************************************)
(* The state of the page.                                                  *)
(***************************************************************************)
VARIABLES
    envKey,          \* the OPENAI_API_KEY environment variable
    secretKey,       \* the OPENAI_API_KEY entry of st.secrets
    OpenAI,          \* TRUE when the openai package was imported (line 8)
    OPENAI_API_KEY,  \* line 66
    client,          \* lines 69-71
    role, tone, length, creativity, style, prompt,   \* the widgets' values
    generated,       \* the last run of the script wrote a story (line 156)
    story,           \* the text it wrote
    invoked,         \* the strategies generate_response called in that run
    calls,           \* the requests the completion service received in that run
    outcome,         \* what the service did with the request
    propagated,      \* an exception reached the caller of generate_response
    sampled, styled, log   \* the offline strategy's intermediate values

env == <<envKey, secretKey, OpenAI, OPENAI_API_KEY, client>>

widgets == <<role, tone, length, creativity, style, prompt>>

run == <<generated, story, invoked, calls, outcome, propagated,
         sampled, styled, log>>

vars == <<env, widgets, run>>

\* a run of the script in which the button is not pressed writes no story
NoStory ==
    /\ generated' = FALSE
    /\ story' = << >>
    /\ invoked' = << >>
    /\ calls' = << >>
    /\ outcome' = NoOutcome
    /\ propagated' = FALSE
    /\ sampled' = << >>
    /\ styled' = << >>
    /\ log' = << >>

\* the first run of the script: lines 7-10 and 66-74, the widgets at their defaults
Init ==
    /\ \E e \in Environments :
          envKey = e[1] /\ secretKey = e[2] /\ OpenAI = e[3]
    /\ OPENAI_API_KEY = ResolveKey(envKey, secretKey)
    /\ client = MakeClient(OPENAI_API_KEY, OpenAI)
    /\ role = Storyteller
    /\ tone = Inspirational
    /\ length = Medium
    /\ creativity = 14
    /\ style = {"Metaphor"}
    /\ prompt = << >>
    /\ generated = FALSE
    /\ story = << >>
    /\ invoked = << >>
    /\ calls = << >>
    /\ outcome = NoOutcome
    /\ propagated = FALSE
    /\ sampled = << >>
    /\ styled = << >>
    /\ log = << >>

\* The user changes a widget; the script runs again with the button not pressed.
SelectRole ==
    /\ \E r \in Roles : r # role /\ role' = r
    /\ NoStory
    /\ UNCHANGED <<env, tone, length, creativity, style, prompt>>

SelectTone ==
    /\ \E t \in Tones : t # tone /\ tone' = t
    /\ NoStory
    /\ UNCHANGED <<env, role, length, creativity, style, prompt>>

SelectLength ==
    /\ \E l \in Lengths : l # length /\ length' = l
    /\ NoStory
    /\ UNCHANGED <<env, role, tone, creativity, style, prompt>>

SlideCreativity ==
    /\ \E c \in Creativities : c # creativity /\ creativity' = c
    /\ NoStory
    /\ UNCHANGED <<env, role, tone, length, style, prompt>>

SelectStyle ==
    /\ \E d \in Devices :
          style' = IF d \in style THEN style \ {d} ELSE style \cup {d}
    /\ NoStory
    /\ UNCHANGED <<env, role, tone, length, creativity, prompt>>

EnterPrompt ==
    /\ \E p \in Prompts : p # prompt /\ prompt' = p
    /\ NoStory
    /\ UNCHANGED <<env, role, tone, length, creativity, style>>

\* lines 153-156 with r the value generate_response returned
Write(r, o) ==
    /\ generated' = TRUE
    /\ story' = IF r.invoked = <<"online">> THEN r.online.result
                ELSE r.offline.result
    /\ invoked' = r.invoked
    /\ calls' = r.online.calls
    /\ outcome' = IF r.online.calls = << >> THEN NoOutcome ELSE o
    /\ propagated' = r.online.propagated
    /\ sampled' = r.offline.sampled
    /\ styled' = r.offline.styled
    /\ log' = r.offline.log

\* The user presses "Generate Story": the script runs with the button pressed.
\* The service's outcome, the sample and the random draws are the run's inputs;
\* a run with an empty prompt reaches neither the service nor the random source.
\* The script reads none of the values a run writes, so a press on a page that
\* shows a story reaches the states a press after a widget change reaches: the
\* model takes the press on a page that shows none.
Generate ==
    /\ ~generated
    /\ IF Strip(prompt) = << >>
       THEN Write(generate_response(client, role, tone, prompt, creativity,
                                    length, style, NoOutcome, << >>, << >>),
                  NoOutcome)
       ELSE IF TruthyClient(client)
       THEN \E o \in Outcomes :
               Write(generate_response(client, role, tone, prompt, creativity,
                                       length, style, o, << >>, << >>), o)
       ELSE \E q \in Samples(SampleSize(length)), draws \in [style -> Draws] :
               Write(generate_response(client, role, tone, prompt, creativity,
                                       length, style, NoOutcome, q, draws),
                     NoOutcome)
    /\ UNCHANGED <<env, widgets>>

Next ==
    \/ SelectRole
    \/ SelectTone
    \/ SelectLength
    \/ SlideCreativity
    \/ SelectStyle
    \/ EnterPrompt
    \/ Generate

Spec == Init /\ [][Next]_vars

\* the page in an environment without a key: every story is an offline story
InitOffline == Init /\ envKey = Unset /\ secretKey = Unset

SpecOffline == InitOffline /\ [][Next]_vars

(***************************************************************************)
(* Properties.                                                             *)
(***************************************************************************)
\* the last run called the online strategy, which reached the service
OnlineCalled == generated /\ invoked = <<"online">> /\ Strip(prompt) # << >>

\* the last run called the offline strategy, which produced a story
OfflineStory == generated /\ invoked = <<"offline">> /\ Strip(prompt) # << >>

Blank == <<"\n","\n">>

\* sub occurs in s
Contains(s, sub) == \E i \in 1..(Len(s) + 1) : MatchAt(s, sub, i)

RECURSIVE CountFrom(_, _, _)
\* the number of non-overlapping occurrences of sub in s from position i on
CountFrom(s, sub, i) ==
    LET M == Matches(s, sub, i)
    IN  IF M = {} THEN 0
        ELSE 1 + CountFrom(s, sub, Least(M) + Len(sub))

Count(s, sub) == CountFrom(s, sub, 1)

\* the suffixes of the devices of A, in the order Metaphor, Rule of Three,
\* Rhetorical Question, Sensory Detail
SuffixesOf(A) ==
    (IF "Metaphor" \in A THEN MetaphorSuffix ELSE << >>)
    \o (IF "Rule of Three" \in A THEN RuleOfThreeSuffix ELSE << >>)
    \o (IF "Rhetorical Question" \in A THEN RhetoricalQuestionSuffix ELSE << >>)
    \o (IF "Sensory Detail" \in A THEN SensoryDetailSuffix ELSE << >>)

\* the devices whose mutation the last run made, and how often each
Logged == {log[i] : i \in 1..Len(log)}

Times(d) == Cardinality({i \in 1..Len(log) : log[i] = d})

\* C1: when the completion call raises an exception with message m, the
\* result is "(U+26A0)(U+FE0F) API Error: m", no exception reaches the caller,
\* the service was called once and the offline strategy did not run.
C1_ErrorText ==
    outcome.kind = "raise" =>
        /\ generated
        /\ story = <<"U+26A0","U+FE0F"," ","A","P","I"," ","E","r","r","o","r",":"," ">> \o outcome.msg
        /\ ~propagated
        /\ Len(calls) = 1
        /\ invoked = <<"online">>
        /\ sampled = << >> /\ styled = << >> /\ log = << >>

C1_Witness ==
    /\ outcome.kind = "raise"
    /\ outcome.msg = <<"r","a","t","e"," ","l","i","m","i","t","e","d">>
    /\ story = <<"U+26A0","U+FE0F"," ","A","P","I"," ","E","r","r","o","r",":"," ","r","a",
                 "t","e"," ","l","i","m","i","t","e","d">>

\* C2: every Generate invokes exactly one strategy, the online one when the
\* client exists and the offline one otherwise, whatever the request is.
C2_ExactlyOneStrategy ==
    generated =>
        /\ Len(invoked) = 1
        /\ invoked[1] = (IF client = NoClient THEN "offline" ELSE "online")
        /\ invoked[1] = "online" => sampled = << >> /\ styled = << >> /\ log = << >>
        /\ invoked[1] = "offline" => calls = << >> /\ outcome = NoOutcome

C2_Witness ==
    /\ generated /\ invoked = <<"online">> /\ Len(calls) = 1
    /\ role = SciFiAuthor /\ tone = Playful /\ length = Long
    /\ sampled = << >>

\* C3: for an empty or whitespace-only prompt the online strategy returns
\* "Please enter a prompt.", the offline strategy returns "Please enter a
\* prompt to start.", and the service is not called.
C3_EmptyPrompt ==
    (generated /\ \A i \in 1..Len(prompt) : prompt[i] \in Whitespace) =>
        /\ calls = << >>
        /\ invoked = <<"online">> => story = <<"P","l","e","a","s","e"," ","e","n","t","e","r"," ","a"," ","p",
                                               "r","o","m","p","t",".">>
        /\ invoked = <<"offline">> => story = <<"P","l","e","a","s","e"," ","e","n","t","e","r"," ","a"," ","p",
                                                "r","o","m","p","t"," ","t","o"," ","s","t","a","r","t",".">>

C3_Witness ==
    /\ generated /\ prompt = <<" ","\n">> /\ invoked = <<"online">>
    /\ story = <<"P","l","e","a","s","e"," ","e","n","t","e","r"," ","a"," ","p",
                 "r","o","m","p","t",".">>

\* C4: the offline body consists of exactly 1, 2, 4 sentences for Short,
\* Medium, Long, each from the pool of four, none twice.
C4_SampledSentences ==
    OfflineStory =>
        LET k == CASE length = <<"S","h","o","r","t">> -> 1
                   [] length = <<"M","e","d","i","u","m">> -> 2
                   [] length = <<"L","o","n","g">> -> 4
            pool == {parts[i] : i \in 1..Len(parts)}
            joined == Join(Blank, sampled)
        IN  /\ Cardinality(pool) = 4
            /\ Len(sampled) = k
            /\ \A i \in 1..k : sampled[i] \in pool
            /\ \A i, j \in 1..k : i # j => sampled[i] # sampled[j]
            /\ Len(styled) >= Len(joined)
            /\ SubSeq(styled, 1, Len(joined)) = joined
            /\ length = <<"L","o","n","g">> => {sampled[i] : i \in 1..k} = pool

C4_Witness ==
    /\ OfflineStory /\ length = Long
    /\ sampled = <<parts[3], parts[1], parts[4], parts[2]>>

\* C5: at creativity 0.0 the offline body is left as sampled, whatever the
\* selected devices and the random draws are.
C5_NoMutationAtZero ==
    (OfflineStory /\ creativity = 0) =>
        /\ styled = Join(Blank, sampled)
        /\ log = << >>

C5_Witness ==
    /\ OfflineStory /\ creativity = 0 /\ style = Devices
    /\ styled = Join(Blank, sampled)

\* C6: at creativity 1.0 the mutation of every selected device is applied
\* exactly once and that of no other device: each selected suffix occurs once
\* in the result, no unselected suffix occurs, the substitution is made once
\* when Alliteration is selected.
C6_EveryMutationOnceAtOne ==
    (OfflineStory /\ creativity = 20) =>
        /\ \A d \in Devices \ {"Alliteration"} :
              Count(story, Suffix(d)) = (IF d \in style THEN 1 ELSE 0)
        /\ \A d \in Devices : Times(d) = (IF d \in style THEN 1 ELSE 0)

C6_Witness ==
    /\ OfflineStory /\ creativity = 20
    /\ style = {"Alliteration", "Rule of Three", "Sensory Detail"}
    /\ Count(story, RuleOfThreeSuffix) = 1
    /\ Times("Alliteration") = 1

\* the service returned a response whose first choice has text
C7_FirstChoiceHasText ==
    /\ outcome.kind = "return"
    /\ outcome.choices # << >>
    /\ outcome.choices[1].hasText

\* C7: with a non-empty prompt and a response whose first choice has text,
\* the service receives one request: a single user message containing
\* "You are a {role} writing in a {tone lowercased} tone." and
\* "Prompt: {prompt}", temperature = creativity; the result is the first
\* choice's text without leading and trailing whitespace.
C7_OnlineSuccess ==
    (OnlineCalled /\ C7_FirstChoiceHasText) =>
        /\ Len(calls) = 1
        /\ Len(calls[1].messages) = 1
        /\ calls[1].messages[1].role = "user"
        /\ Contains(calls[1].messages[1].content,
                    <<"Y","o","u"," ","a","r","e"," ","a"," ">> \o role \o <<" ","w","r","i","t","i","n","g"," ","i","n"," ","a"," ">>
                        \o Lower(tone) \o <<" ","t","o","n","e",".">>)
        /\ Contains(calls[1].messages[1].content, <<"P","r","o","m","p","t",":"," ">> \o prompt)
        /\ calls[1].temperature = creativity
        /\ LET t == outcome.choices[1].text
           IN  /\ story = << >> \/ (Head(story) \notin Whitespace
                                    /\ story[Len(story)] \notin Whitespace)
               /\ \E i \in 0..(Len(t) - Len(story)) :
                     /\ SubSeq(t, i + 1, i + Len(story)) = story
                     /\ \A j \in (1..i) \cup ((i + Len(story) + 1)..Len(t)) :
                           t[j] \in Whitespace

C7_Witness ==
    /\ OnlineCalled /\ C7_FirstChoiceHasText
    /\ role = SciFiAuthor /\ tone = Playful /\ prompt = <<" ","M","a","r","s"," ">>
    /\ outcome.choices[1].text = <<" ","A"," ","t","a","l","e"," ","u","n","f","o","l","d","s",".",
                                   "\n">>
    /\ story = <<"A"," ","t","a","l","e"," ","u","n","f","o","l","d","s",".">>
    /\ Contains(calls[1].messages[1].content,
                <<"Y","o","u"," ","a","r","e"," ","a"," ","S","c","i","-","F","i",
                  " ","A","u","t","h","o","r"," ","w","r","i","t","i","n","g"," ",
                  "i","n"," ","a"," ","p","l","a","y","f","u","l"," ","t","o","n",
                  "e",".">>)

\* C8: the offline result is the intro line, a blank line, the sampled
\* sentences joined by blank lines followed by the applied suffixes in the
\* order Metaphor, Rule of Three, Rhetorical Question, Sensory Detail (each at
\* most once), a blank line and "(Written in a {tone lowercased} tone.)".
C8_OfflineResultShape ==
    OfflineStory =>
        /\ Logged \subseteq style
        /\ \A d \in Devices : Times(d) <= 1
        /\ story = <<"F","r","o","m"," ","a"," ">> \o Lower(role)
                     \o <<"'","s"," ","p","e","r","s","p","e","c","t","i","v","e",","," ",
                          "h","e","r","e","'","s"," ","a"," ","s","t","o","r","y"," ","a",
                          "b","o","u","t"," ">>
                     \o Lower(prompt) \o <<":">>
                     \o Blank \o Join(Blank, sampled) \o SuffixesOf(Logged)
                     \o Blank \o <<"(","W","r","i","t","t","e","n"," ","i","n"," ","a"," ">> \o Lower(tone) \o <<" ","t","o","n","e",".",")">>
        /\ (Logged \ {"Alliteration"} = {}) => styled = Join(Blank, sampled)

C8_Witness ==
    /\ OfflineStory /\ role = SciFiAuthor /\ tone = Playful /\ length = Medium
    /\ creativity = 14
    /\ style = {"Metaphor", "Rhetorical Question", "Sensory Detail"}
    /\ Logged = {"Metaphor", "Sensory Detail"}
    /\ sampled = <<parts[4], parts[2]>>

C10_DrawsOfLog == [d \in Devices |-> IF d \in Logged THEN 0 ELSE CreativitySteps - 1]

\* C10: with Alliteration selected the offline text is the text the same
\* sample and the same other draws give without it, and the other way round:
\* no sentence of the pool and no suffix contains "strong".
C10_AlliterationChangesNothing ==
    OfflineStory =>
        /\ \A i \in 1..Len(parts) : ~Contains(parts[i], <<"s","t","r","o","n","g">>)
        /\ \A d \in Devices \ {"Alliteration"} : ~Contains(Suffix(d), <<"s","t","r","o","n","g">>)
        /\ ~Contains(styled, <<"s","w","i","f","t"," ","a","n","d"," ","s","t","e","a","d","y">>)
        /\ "Alliteration" \in style =>
              styled = stylize_text(Join(Blank, sampled), style \ {"Alliteration"},
                                    creativity, C10_DrawsOfLog).text
        /\ "Alliteration" \notin style =>
              \A a \in Draws :
                 styled = stylize_text(Join(Blank, sampled),
                                       style \cup {"Alliteration"}, creativity,
                                       [C10_DrawsOfLog EXCEPT !["Alliteration"] = a]).text

C10_Witness ==
    /\ OfflineStory /\ creativity = 14
    /\ style = {"Alliteration", "Metaphor"}
    /\ log = <<"Metaphor", "Alliteration">>
    /\ \E i \in 1..Len(sampled) : sampled[i] = parts[3]
=============================================================================
